---------------------------- MODULE Spec2Model ----------------------------
(***************************************************************************)
(* list-regions.py: fetch the Geofabrik index document and print every     *)
(* region path of the nested "subregions" tree, indented by tree level.    *)
(*                                                                         *)
(* Python values are modelled as follows.                                  *)
(*   - a str is a sequence of one-character strings ("" is <<>>);          *)
(*   - a list is a sequence;                                               *)
(*   - a dict is a record with a field "keys" (the set of keys present)    *)
(*     and one field per key the program reads; a key that is not in       *)
(*     "keys" is absent, whatever the field holds;                         *)
(*   - "value or None" is a sequence of length at most one: <<>> is None,  *)
(*     <<v>> is the value v.                                               *)
(* A call of walk is a frame on `stack`; the frame holds the region it was *)
(* called with, its indent, and how far its for loop has got.              *)
(***************************************************************************)
EXTENDS Integers, Sequences, FiniteSets, TLC

\* ---------------------------------------------------------------- bounds
MaxNodes == 3       \* region nodes in the index document, root excluded
MaxPathLen == 1     \* characters in a region's path
MaxRuns == 2        \* times the script is run against the same index

\* ------------------------------------------------------- Python values
None == <<>>
Some(v) == <<v>>

\* dict.get(key, default): `default` is already a "value or None"
Get(d, key, default) == IF key \in d.keys THEN Some(d[key]) ELSE default

\* `if path is not None:` in place of `if path:`
TruthyStrNotNone(o) == o # None

\* truth value of a str-or-None (`if path:`)
TruthyStr(o) == o # None /\ o[1] # <<>>

\* truth value of a dict-or-None (`if not data:` is its negation)
TruthyDict(o) == o # None /\ o[1].keys # {}

RECURSIVE Repeat(_, _)
\* s * n for a str s
Repeat(s, n) == IF n <= 0 THEN <<>> ELSE s \o Repeat(s, n - 1)

\* one space per level in place of two
RenderOneSpace(indent, path) == Repeat(<<" ">>, indent) \o <<"-", " ">> \o path

\* "  " * indent + f"- {path}"
Render(indent, path) == Repeat(<<" ", " ">>, indent) \o <<"-", " ">> \o path

\* region.get("subregions") without the default
NoDefaultSubregions == None

\* the default of region.get("subregions", []) and data.get("subregions", [])
DefaultSubregions == Some(<<>>)

\* data.get("subregions", []) of main
MainSubregions(d) == Get(d, "subregions", DefaultSubregions)

\* region.get("path") of walk
PathOf(region) == Get(region, "path", None)

\* the loop over the subregions nested under `if path:`
SubregionsIfPath(region) ==
    IF TruthyStr(PathOf(region)) THEN Get(region, "subregions", DefaultSubregions)
    ELSE Some(<<>>)

\* the loop stops one subregion short
SubregionsButLast(region) ==
    LET it == Get(region, "subregions", DefaultSubregions)
    IN  IF it = None \/ it[1] = <<>> THEN it
        ELSE Some(SubSeq(it[1], 1, Len(it[1]) - 1))

\* region.get("subregions", []) of walk
Subregions(region) == Get(region, "subregions", DefaultSubregions)

\* the for loop runs over reversed(items)
IterPosReversed(items, k) == Len(items) + 1 - k

\* the position in `items` of the element the for loop yields k-th
IterPos(items, k) == k

\* the indent grows only below a region that printed a line
ChildIndentIfPrinted(frame) ==
    IF TruthyStr(PathOf(frame.region)) THEN frame.indent + 1 ELSE frame.indent

\* `indent + 1`, the indent walk passes to its subregions
ChildIndent(frame) == frame.indent + 1

\* --------------------------------------------------- index documents
RECURSIVE Strings(_)
Strings(n) == IF n = 0 THEN {<<>>}
              ELSE Strings(n - 1) \cup {<<"a">> \o s : s \in Strings(n - 1)}

\* a region's "path": absent, or a string (the empty one included)
PathOptions == {None} \cup {Some(s) : s \in Strings(MaxPathLen)}

\* the region dicts with path option p and children f
MkNodes(p, f) ==
    LET pk == IF p = None THEN {} ELSE {"path"}
        pv == IF p = None THEN <<>> ELSE p[1]
    IN  {[keys |-> pk \cup {"subregions"}, path |-> pv, subregions |-> f]}
        \cup (IF f = <<>>
              THEN {[keys |-> pk, path |-> pv, subregions |-> <<>>]}
              ELSE {})

RECURSIVE ForestsOfSize(_)
\* the lists of regions that hold n nodes altogether
ForestsOfSize(n) ==
    IF n = 0 THEN {<<>>}
    ELSE UNION {
           UNION { UNION { {<<t>> \o rest : t \in MkNodes(p, kids)}
                           : p \in PathOptions }
                   : kids \in ForestsOfSize(k - 1), rest \in ForestsOfSize(n - k) }
           : k \in 1..n }

Forests == UNION {ForestsOfSize(n) : n \in 0..MaxNodes}

\* the documents the index URL may serve: a JSON object with "subregions",
\* an object with other keys only ("type" stands for them), or just {}
Catalogs ==
    {[keys |-> {"subregions"}, subregions |-> f] : f \in Forests}
    \cup {[keys |-> {"type"}, subregions |-> <<>>],
          [keys |-> {}, subregions |-> <<>>]}

\* ------------------------------------------------- nodes by position
\* A node is named by its position: <<i>> is the i-th top-level region,
\* a \o <<j>> the j-th subregion of the node at a.
RECURSIVE NodeAt(_, _)
NodeAt(f, a) == IF Len(a) = 1 THEN f[a[1]]
                ELSE NodeAt(f[a[1]].subregions, Tail(a))

RECURSIVE AddrsOf(_)
AddrsOf(f) == UNION { {<<i>>} \cup {<<i>> \o a : a \in AddrsOf(f[i].subregions)}
                      : i \in 1..Len(f) }

VARIABLES
    catalog,    \* the document behind INDEX_URL
    run,        \* which run of the script this is
    pc,         \* where main is: "start", "check", "loop", "done", "raised"
    data,       \* main's data: the fetched document or None
    mk,         \* iterations main's for loop has started
    stack,      \* the active calls of walk, innermost first
    out,        \* the lines printed on stdout
    stderr,     \* the lines printed on stderr
    ret,        \* main's return value, None until it returns
    visits,     \* history: the calls of walk so far, [node, indent]
    emitted,    \* history: for each line of out, [node, depth, path]
    prev        \* history: data, out and records of the previous run

vars == <<catalog, run, pc, data, mk, stack, out, stderr, ret, visits,
          emitted, prev>>

\* the indent is a global that a run leaves behind
CarriedIndent == run - 1

\* the indent of a walk called without one (`indent: int = 0`)
InitialIndent == 0

\* the (depth, path) records of a history of prints
Records(es) == [i \in 1..Len(es) |-> [depth |-> es[i].depth, path |-> es[i].path]]

Init ==
    /\ catalog \in Catalogs
    /\ run = 1
    /\ pc = "start"
    /\ data = None
    /\ mk = 0
    /\ stack = <<>>
    /\ out = <<>>
    /\ stderr = <<>>
    /\ ret = None
    /\ visits = <<>>
    /\ emitted = <<>>
    /\ prev = [data |-> None, out |-> <<>>, recs |-> <<>>]

\* fetch_index: urlopen and json.load succeed
FetchOk ==
    /\ pc = "start"
    /\ data' = Some(catalog)
    /\ pc' = "check"
    /\ UNCHANGED <<catalog, run, mk, stack, out, stderr, ret, visits, emitted, prev>>

\* fetch_index: an exception is caught, reported on stderr, None returned
FetchFail ==
    /\ pc = "start"
    /\ data' = None
    /\ stderr' = Append(stderr, "Error fetching index")
    /\ pc' = "check"
    /\ UNCHANGED <<catalog, run, mk, stack, out, ret, visits, emitted, prev>>

\* main: `if not data: return 1`
MainReturn1 ==
    /\ pc = "check"
    /\ ~TruthyDict(data)
    /\ ret' = Some(1)
    /\ pc' = "done"
    /\ UNCHANGED <<catalog, run, data, mk, stack, out, stderr, visits, emitted, prev>>

\* main: data is truthy; the for statement evaluates its iterable
MainEnterLoop ==
    /\ pc = "check"
    /\ TruthyDict(data)
    /\ pc' = IF MainSubregions(data[1]) = None THEN "raised" ELSE "loop"
    /\ mk' = 0
    /\ UNCHANGED <<catalog, run, data, stack, out, stderr, ret, visits, emitted, prev>>

\* main: `for region in ...: walk(region)`, the call
MainCall ==
    /\ pc = "loop"
    /\ stack = <<>>
    /\ LET items == MainSubregions(data[1])[1]
           pos == IterPos(items, mk + 1)
       IN  /\ mk < Len(items)
           /\ stack' = <<[region |-> items[pos], node |-> <<pos>>,
                          indent |-> InitialIndent, pc |-> "enter", k |-> 0]>>
    /\ mk' = mk + 1
    /\ UNCHANGED <<catalog, run, pc, data, out, stderr, ret, visits, emitted, prev>>

\* main: the for loop is exhausted, `return 0`
MainReturn0 ==
    /\ pc = "loop"
    /\ stack = <<>>
    /\ mk >= Len(MainSubregions(data[1])[1])
    /\ ret' = Some(0)
    /\ pc' = "done"
    /\ UNCHANGED <<catalog, run, data, mk, stack, out, stderr, visits, emitted, prev>>

\* walk: read the path, print it if truthy, evaluate the for's iterable
WalkEnter ==
    /\ pc = "loop"
    /\ stack # <<>>
    /\ LET top == stack[1]
           path == PathOf(top.region)
       IN  /\ top.pc = "enter"
           /\ visits' = Append(visits, [node |-> top.node, indent |-> top.indent])
           /\ IF TruthyStr(path)
              THEN /\ out' = Append(out, Render(top.indent, path[1]))
                   /\ emitted' = Append(emitted, [node |-> top.node,
                                                  depth |-> top.indent,
                                                  path |-> path[1]])
              ELSE UNCHANGED <<out, emitted>>
           /\ IF Subregions(top.region) = None
              THEN /\ pc' = "raised"
                   /\ stack' = stack
              ELSE /\ pc' = pc
                   /\ stack' = <<[top EXCEPT !.pc = "loop"]>> \o Tail(stack)
    /\ UNCHANGED <<catalog, run, data, mk, stderr, ret, prev>>

\* walk: `for sub in ...: walk(sub, indent + 1)`, the call
WalkCall ==
    /\ pc = "loop"
    /\ stack # <<>>
    /\ LET top == stack[1]
           items == Subregions(top.region)[1]
           pos == IterPos(items, top.k + 1)
       IN  /\ top.pc = "loop"
           /\ top.k < Len(items)
           /\ stack' = <<[region |-> items[pos], node |-> top.node \o <<pos>>,
                          indent |-> ChildIndent(top), pc |-> "enter", k |-> 0],
                         [top EXCEPT !.k = top.k + 1]>> \o Tail(stack)
    /\ UNCHANGED <<catalog, run, pc, data, mk, out, stderr, ret, visits, emitted, prev>>

\* walk: the for loop is exhausted, the call returns
WalkReturn ==
    /\ pc = "loop"
    /\ stack # <<>>
    /\ LET top == stack[1]
       IN  /\ top.pc = "loop"
           /\ top.k >= Len(Subregions(top.region)[1])
    /\ stack' = Tail(stack)
    /\ UNCHANGED <<catalog, run, pc, data, mk, out, stderr, ret, visits, emitted, prev>>

\* the script is run again (`sys.exit(main())` in a new process)
Restart ==
    /\ pc = "done"
    /\ run < MaxRuns
    /\ run' = run + 1
    /\ prev' = [data |-> data, out |-> out, recs |-> Records(emitted)]
    /\ pc' = "start"
    /\ data' = None
    /\ mk' = 0
    /\ stack' = <<>>
    /\ out' = <<>>
    /\ stderr' = <<>>
    /\ ret' = None
    /\ visits' = <<>>
    /\ emitted' = <<>>
    /\ UNCHANGED catalog

\* one step of one run of the script
Step ==
    \/ FetchOk
    \/ FetchFail
    \/ MainReturn1
    \/ MainEnterLoop
    \/ MainCall
    \/ MainReturn0
    \/ WalkEnter
    \/ WalkCall
    \/ WalkReturn

Next == Step \/ Restart

Spec == Init /\ [][Next]_vars

\* the interpreter keeps executing a run it has started
LiveSpec == Init /\ [][Next]_vars /\ WF_vars(Step)

TypeOK ==
    /\ pc \in {"start", "check", "loop", "done", "raised"}
    /\ run \in 1..MaxRuns
    /\ ret \in {None, Some(0), Some(1)}
    /\ Len(out) = Len(emitted)

\* ------------------------------------------------------------ the tree
\* the top-level regions of the fetched document (none if it has no list)
Forest == IF data = None \/ "subregions" \notin data[1].keys THEN <<>>
          ELSE data[1].subregions

\* the nodes of the fetched tree, root excluded
Nodes == AddrsOf(Forest)

\* the node at position a has a path that is present and non-empty
HasPath(a) == LET n == NodeAt(Forest, a)
              IN  "path" \in n.keys /\ Len(n.path) > 0

\* a is a proper ancestor of b
IsAncestor(a, b) == Len(a) < Len(b) /\ SubSeq(b, 1, Len(a)) = a

\* a comes before b in document order: a is an ancestor of b, or a lies in
\* the subtree of an earlier sibling than the one whose subtree holds b
DocBefore(a, b) ==
    \/ IsAncestor(a, b)
    \/ \E k \in 1..Len(a) :
          /\ k <= Len(b)
          /\ SubSeq(a, 1, k - 1) = SubSeq(b, 1, k - 1)
          /\ a[k] < b[k]

\* the run has finished with a document in hand
Finished == pc = "done" /\ data # None

\* ---------------------------------------------------------------- C1
\* C1: the records are emitted in pre-order document order: a node's record
\* comes before the records of its descendants, and the records of the
\* subtree of a child ci come before those of the subtree of cj when i < j.
C1_PreOrder ==
    \A i, j \in 1..Len(emitted) :
        i < j => DocBefore(emitted[i].node, emitted[j].node)

\* a finished run that printed a node before its descendant and the subtree
\* of a first child before that of a second child
C1_Witness ==
    /\ Finished
    /\ \E i, j \in 1..Len(emitted) :
          i < j /\ IsAncestor(emitted[i].node, emitted[j].node)
    /\ \E i, j \in 1..Len(emitted) :
          /\ i < j
          /\ ~IsAncestor(emitted[i].node, emitted[j].node)
          /\ Len(emitted[i].node) # Len(emitted[j].node)

\* ---------------------------------------------------------------- C2
\* C2: the depth of every record is the number of ancestors (root excluded)
\* of its node, whether or not those ancestors printed a record.
C2_Depth ==
    \A i \in 1..Len(emitted) :
        /\ emitted[i].node \in Nodes
        /\ emitted[i].depth = Len(emitted[i].node) - 1

\* a record at depth 2 whose parent has no path and printed nothing
C2_Witness ==
    \E i \in 1..Len(emitted) :
        LET a == emitted[i].node
        IN  /\ Len(a) = 3
            /\ ~HasPath(SubSeq(a, 1, 2))
            /\ emitted[i].depth = 2

\* ---------------------------------------------------------------- C3
\* C3: the records correspond one to one to the nodes whose path is present
\* and non-empty: no record comes from another node or twice from one node,
\* each carries its node's path, and a finished run has one for each.
C3_Complete ==
    /\ \A i \in 1..Len(emitted) :
          /\ emitted[i].node \in Nodes
          /\ HasPath(emitted[i].node)
          /\ emitted[i].path = NodeAt(Forest, emitted[i].node).path
          /\ \A j \in 1..Len(emitted) :
                emitted[j].node = emitted[i].node => j = i
    /\ Finished =>
          /\ {emitted[i].node : i \in 1..Len(emitted)} = {a \in Nodes : HasPath(a)}
          /\ Len(emitted) = Cardinality({a \in Nodes : HasPath(a)})

\* a finished run over a tree that mixes nodes with and without a path
C3_Witness ==
    /\ Finished
    /\ Len(emitted) >= 1
    /\ \E a \in Nodes : "path" \notin NodeAt(Forest, a).keys
    /\ \E a \in Nodes : LET n == NodeAt(Forest, a)
                        IN  "path" \in n.keys /\ n.path = <<>>

\* ---------------------------------------------------------------- C4
\* C4: a node whose path is absent or empty emits no record, and each of
\* its children is still visited, at the node's depth plus one, so that a
\* child with a path is emitted at that depth.
C4_PathlessNode ==
    /\ \A i \in 1..Len(emitted) : HasPath(emitted[i].node)
    /\ Finished =>
          \A a \in Nodes :
              ~HasPath(a) =>
                  \A c \in 1..Len(NodeAt(Forest, a).subregions) :
                      /\ \E v, w \in 1..Len(visits) :
                            /\ visits[w].node = a
                            /\ visits[v].node = a \o <<c>>
                            /\ visits[v].indent = visits[w].indent + 1
                      /\ HasPath(a \o <<c>>) =>
                            \E i \in 1..Len(emitted) :
                                /\ emitted[i].node = a \o <<c>>
                                /\ emitted[i].depth = Len(a)

\* a finished run over a chain: a node without the path key, below it a
\* node whose path is "", below that a node with a path, which is printed
C4_Witness ==
    /\ Finished
    /\ \E a \in Nodes :
          /\ Len(a) = 3
          /\ "path" \notin NodeAt(Forest, SubSeq(a, 1, 1)).keys
          /\ "path" \in NodeAt(Forest, SubSeq(a, 1, 2)).keys
          /\ NodeAt(Forest, SubSeq(a, 1, 2)).path = <<>>
          /\ \E i \in 1..Len(emitted) : emitted[i].node = a
    /\ Len(emitted) = 1

\* ---------------------------------------------------------------- C5
\* C5: a fetched root with zero top-level regions (an empty subregions list,
\* or no subregions at all) makes the driver print nothing and return 0.
C5_EmptyRootSucceeds ==
    (pc = "done" /\ data # None /\ Forest = <<>>) =>
        (out = <<>> /\ ret = Some(0))

\* ---------------------------------------------------------------- C6
\* C6: when the fetch fails (None), walk is never called, nothing is
\* printed and main returns 1; and main returns 1 only in that case.
C6_FailureOnly ==
    /\ (pc = "done" /\ data = None) =>
          (visits = <<>> /\ out = <<>> /\ ret = Some(1))
    /\ ret = Some(1) => data = None

\* ---------------------------------------------------------------- C7
\* C7: visiting a node without the subregions key raises nothing, prints at
\* most the node's own line, calls walk on no child, and returns to the
\* caller, which goes on with the next sibling.
C7_MissingSubregions ==
    /\ [](pc # "raised")
    /\ [][ (pc = "loop" /\ stack # <<>>
             /\ "subregions" \notin stack[1].region.keys) =>
              /\ stack[1].pc = "enter" =>
                    /\ Len(stack') = Len(stack)
                    /\ Len(out') <= Len(out) + 1
                    /\ pc' = "loop"
              /\ stack[1].pc = "loop" =>
                    /\ stack' = Tail(stack)
                    /\ out' = out
                    /\ visits' = visits ]_vars

\* a node without the subregions key was visited, and after it its next
\* sibling
C7_Witness ==
    \E i, j \in 1..Len(visits) :
        LET a == visits[i].node
            b == visits[j].node
        IN  /\ i < j
            /\ "subregions" \notin NodeAt(Forest, a).keys
            /\ Len(a) = Len(b)
            /\ SubSeq(a, 1, Len(a) - 1) = SubSeq(b, 1, Len(b) - 1)
            /\ b[Len(b)] = a[Len(a)] + 1

C9_TerminatesLinear ==
    /\ (pc = "start") ~> (pc = "done")
    /\ [](Finished =>
            /\ Len(visits) = Cardinality(Nodes)
            /\ {visits[i].node : i \in 1..Len(visits)} = Nodes)

\* a finished run that called walk on each of three nodes
C9_Witness ==
    /\ Finished
    /\ Cardinality(Nodes) = 3
    /\ Len(visits) = 3

\* --------------------------------------------------------------- C10
\* C10: there is one printed line per record, in the same order, and the
\* line of (depth, path) is 2 * depth spaces, then "- ", then the path.
C10_Rendering ==
    /\ Len(out) = Len(emitted)
    /\ \A i \in 1..Len(out) :
          LET l == out[i]
              d == emitted[i].depth
              p == emitted[i].path
          IN  /\ Len(l) = 2 * d + 2 + Len(p)
              /\ \A k \in 1..(2 * d) : l[k] = " "
              /\ l[2 * d + 1] = "-"
              /\ l[2 * d + 2] = " "
              /\ SubSeq(l, 2 * d + 3, Len(l)) = p

\* a line at depth 0 without leading space and one at depth 2 with four
C10_Witness ==
    /\ \E i \in 1..Len(out) : emitted[i].depth = 0 /\ out[i][1] = "-"
    /\ \E i \in 1..Len(out) :
          emitted[i].depth = 2 /\ out[i] = <<" ", " ", " ", " ", "-", " ", "a">>
=============================================================================
